---- MODULE Spec2Model ----
(***************************************************************************)
(* Model of app.py of the Sharp Token dashboard: the module-level loading  *)
(* and date cleaning of the four workbook sheets, and create_figures(),    *)
(* which filters each table to the 2025 window, aggregates it by calendar  *)
(* month, reshapes it to long form and computes the totals shown in the    *)
(* chart titles.                                                           *)
(***************************************************************************)
EXTENDS Integers, Sequences, FiniteSets, TLC

VARIABLES pc, sheet_names, sheets, tokens_source_df, wallet_df, referral_df,
          fee_df, referral_sources, figs

vars == <<pc, sheet_names, sheets, tokens_source_df, wallet_df, referral_df,
          fee_df, referral_sources, figs>>

(***************************************************************************)
(* Bounds of the model.                                                    *)
(***************************************************************************)
\* the largest number of rows of a sheet
MaxRecs == 2

\* the values a numeric cell of a column takes (one value for Web keeps the
\* rows of the wallet sheet as few as those of the other sheets)
ColVals(c) == IF c = "Web" THEN {3} ELSE {1, 2}

(***************************************************************************)
(* Timestamps, and the cells of a Date column.                             *)
(***************************************************************************)
Stamp(y, m, d, h) == [y |-> y, m |-> m, d |-> d, h |-> h]

\* pandas' NaT, the result of a failed parse under errors="coerce"
NaT == Stamp(0, 0, 0, 0)

\* the order of timestamps (pandas compares datetime64 values, time of day included)
Key(ts) == ((ts.y * 12 + (ts.m - 1)) * 31 + (ts.d - 1)) * 24 + ts.h

\* the calendar day of a timestamp, as a number
DayKey(ts) == (ts.y * 12 + (ts.m - 1)) * 31 + (ts.d - 1)

\* dt.to_period("M").dt.to_timestamp() and the "MS" bins: the month of a timestamp
MonthOf(ts) == ts.y * 12 + (ts.m - 1)

\* dt.strftime("%b %Y") of a month start: the month's name and the year
MonthLabel(mi) == [b |-> (mi % 12) + 1, Y |-> mi \div 12]

\* the comparison strings of create_figures, as pandas parses them (midnight)
Cutoff20250101 == Stamp(2025, 1, 1, 0)
Cutoff20241231 == Stamp(2024, 12, 31, 0)

\* the timestamps a date cell of the workbook holds
Stamps == { Stamp(2024, 12, 31, 0), Stamp(2024, 12, 31, 12),
            Stamp(2025, 1, 1, 0), Stamp(2025, 3, 5, 9) }

\* a date cell: an Excel date-time, or text written in some format
DateCells ==
    { [kind |-> "datetime", fmt |-> "native", ts |-> s] : s \in Stamps }
    \cup { [kind |-> "text", fmt |-> f, ts |-> Stamp(2025, 1, 20, 0)] :
             f \in {"%m-%d-%Y", "%Y-%m-%d"} }

Range(s) == { s[i] : i \in 1..Len(s) }

(***************************************************************************)
(* The workbook "Sharp Token.xlsx".                                        *)
(***************************************************************************)
SheetKeys == {"Tokens per source", "Wallets Created", "Referrals", "POL Data"}

\* how a sheet's name appears in the workbook
NameForms == {"absent", "exact", "padded"}

\* the layouts of a sheet: its columns in order, and those that hold text
Layouts(k) ==
    CASE k = "Tokens per source" ->
           { [columns |-> <<"Date", "Staking", "Airdrop">>, text |-> {}],
             [columns |-> <<"Date", "Staking", "Total">>, text |-> {}],
             [columns |-> <<"Date", "Note", "Staking", "Total">>, text |-> {"Note"}] }
      [] k = "Wallets Created" ->
           { [columns |-> <<"Date", "Android", "iOS", "Web">>, text |-> {}] }
      [] k = "Referrals" ->
           { [columns |-> <<"Date", "Promo", "Invite">>, text |-> {}],
             [columns |-> <<"Date", "Promo", "Note", "Invite">>, text |-> {"Note"}] }
      [] OTHER ->
           { [columns |-> <<"Date", "TxnFee(POL)">>, text |-> {}] }

\* the columns of a layout that hold numbers
ValueCols(lay) == { c \in Range(lay.columns) : c # "Date" /\ c \notin lay.text }

RowsOf(lay) ==
    { [Date |-> c, v |-> f] :
        c \in DateCells,
        f \in { g \in [ValueCols(lay) -> {1, 2, 3}] :
                  \A x \in ValueCols(lay) : g[x] \in ColVals(x) } }

\* a sheet of a layout with its rows
Sheet(lay, rs) == [columns |-> lay.columns, text |-> lay.text, rows |-> rs]

\* one sheet per key with a single record of January 2025
DefaultSheet(k) ==
    LET lay == CHOOSE l \in Layouts(k) : l.text = {} /\ "Total" \notin Range(l.columns)
    IN  [columns |-> lay.columns, text |-> lay.text,
         rows |-> << [Date |-> [kind |-> "datetime", fmt |-> "native",
                                ts |-> Stamp(2025, 1, 1, 0)],
                      v |-> [c \in ValueCols(lay) |-> CHOOSE x \in ColVals(c) : TRUE]] >>]

DefaultSheets == [k \in SheetKeys |-> DefaultSheet(k)]

(***************************************************************************)
(* Data frames.                                                            *)
(***************************************************************************)
NoFrame == [columns |-> <<>>, numeric |-> {}, rows |-> <<>>]

\* pd.read_excel: a column is of a numeric dtype when it holds numbers; the
\* columns of a sheet without rows are of dtype object
read_excel(sheet) ==
    [columns |-> sheet.columns,
     numeric |-> IF sheet.rows = <<>> THEN {}
                 ELSE { c \in Range(sheet.columns) : c # "Date" /\ c \notin sheet.text },
     rows |-> sheet.rows]

\* to_datetime without its format: any dated text parses
to_datetime_any_format(cell, format) == cell.ts

\* pd.to_datetime(cell, format=format, errors="coerce")
to_datetime(cell, format) ==
    IF cell.kind = "datetime" THEN cell.ts
    ELSE IF cell.fmt = format THEN cell.ts
    ELSE NaT

\* df.dropna(subset=["Date"])
dropna(rows) == SelectSeq(rows, LAMBDA r : r.Date # NaT)

\* df["Date"] = pd.to_datetime(df["Date"], format=..., errors="coerce"), then dropna
CleanDates(df, format) ==
    [df EXCEPT !.rows =
        dropna([i \in 1..Len(df.rows) |->
                  [df.rows[i] EXCEPT !.Date = to_datetime(df.rows[i].Date, format)]])]

\* df["Date"].dt.date, converted back to datetime: the time of day is dropped
StripTime(df) ==
    [df EXCEPT !.rows =
        [i \in 1..Len(df.rows) |-> [df.rows[i] EXCEPT !.Date.h = 0]]]

RECURSIVE SumCol(_, _)
\* df[c].sum()
SumCol(rows, c) ==
    IF rows = <<>> THEN 0 ELSE rows[1].v[c] + SumCol(Tail(rows), c)

RECURSIVE SumOver(_, _)
\* the sum of a row's values over a list of columns: df[cols].sum(axis=1)
SumOver(v, cols) ==
    IF cols = <<>> THEN 0 ELSE v[cols[1]] + SumOver(v, Tail(cols))

\* the numeric columns of referral_df other than Date, in column order
DetectReferralSources(df) ==
    SelectSeq(df.columns, LAMBDA c : c # "Date" /\ c \in df.numeric)

\* referral_df["Referrals"] = referral_df[referral_sources].sum(axis=1)
AddReferrals(df, sources) ==
    [columns |-> IF "Referrals" \in Range(df.columns) THEN df.columns
                 ELSE Append(df.columns, "Referrals"),
     numeric |-> df.numeric \cup {"Referrals"},
     rows |-> [i \in 1..Len(df.rows) |->
                 [df.rows[i] EXCEPT !.v =
                    [c \in (DOMAIN df.rows[i].v) \cup {"Referrals"} |->
                       IF c = "Referrals" THEN SumOver(df.rows[i].v, sources)
                       ELSE df.rows[i].v[c]]]]]

(***************************************************************************)
(* The operations of create_figures.                                       *)
(***************************************************************************)
\* df[df["Date"] >= "2025-01-01"]
OnOrAfter(rows, cutoff) == SelectSeq(rows, LAMBDA r : Key(r.Date) >= Key(cutoff))

\* df[df["Date"] > "2024-12-31"]
After(rows, cutoff) == SelectSeq(rows, LAMBDA r : Key(r.Date) > Key(cutoff))

RECURSIVE SortAsc(_)
\* the keys of a groupby, which pandas sorts
SortAsc(S) ==
    IF S = {} THEN <<>>
    ELSE LET lo == CHOOSE x \in S : \A y \in S : x <= y
         IN  <<lo>> \o SortAsc(S \ {lo})

MonthsOf(rows) == { MonthOf(rows[i].Date) : i \in 1..Len(rows) }

InMonth(rows, mi) == SelectSeq(rows, LAMBDA r : MonthOf(r.Date) = mi)

\* a monthly sum that sums every row, whatever its month
BucketUngrouped(rows, cols, mi) ==
    [Month |-> mi, v |-> [c \in cols |-> SumCol(rows, c)]]

\* one row of a monthly sum: the month and the sum of each column over its rows
Bucket(rows, cols, mi) ==
    [Month |-> mi, v |-> [c \in cols |-> SumCol(InMonth(rows, mi), c)]]

\* df.groupby("Month")[cols].sum().reset_index(): one row per month that occurs
GroupByMonth(rows, cols) ==
    LET ms == SortAsc(MonthsOf(rows))
    IN  [i \in 1..Len(ms) |-> Bucket(rows, cols, ms[i])]

\* df.resample("MS", on="Date").sum(numeric_only=True).reset_index(): one row per
\* month start from the first month to the last, an empty bin summing to 0
ResampleMS(rows, cols) ==
    IF rows = <<>> THEN <<>>
    ELSE LET lo == CHOOSE x \in MonthsOf(rows) : \A y \in MonthsOf(rows) : x <= y
             hi == CHOOSE x \in MonthsOf(rows) : \A y \in MonthsOf(rows) : x >= y
         IN  [i \in 1..(hi - lo + 1) |-> Bucket(rows, cols, lo + i - 1)]

\* the detection without its exclusion of Total
DetectAllNumericCols(df) == SelectSeq(df.columns, LAMBDA c : c \in df.numeric)

\* tsdf.select_dtypes(include="number").columns, other than Total
DetectTokenSourceCols(df) ==
    SelectSeq(df.columns, LAMBDA c : c \in df.numeric /\ c # "Total")

\* monthly_tokens, with its Total column: the stored one summed when the table
\* has one, the sum of the source columns otherwise
MonthlyTokens(rows, df) ==
    LET b == ResampleMS(rows, df.numeric)
    IN  IF "Total" \in df.numeric THEN b
        ELSE [i \in 1..Len(b) |->
                [b[i] EXCEPT !.v =
                   [c \in df.numeric \cup {"Total"} |->
                      IF c = "Total" THEN SumOver(b[i].v, DetectTokenSourceCols(df))
                      ELSE b[i].v[c]]]]

\* a reshape that walks the months first and the variables within each month
MeltMonthMajor(buckets, value_vars) ==
    LET n == Len(value_vars)
    IN  [k \in 1..(n * Len(buckets)) |->
           [Month |-> buckets[((k - 1) \div n) + 1].Month,
            variable |-> value_vars[((k - 1) % n) + 1],
            value |-> buckets[((k - 1) \div n) + 1].v[value_vars[((k - 1) % n) + 1]]]]

\* df.melt(id_vars="Month", value_vars=value_vars): the rows of the first
\* variable for every month, then those of the second, and so on
Melt(buckets, value_vars) ==
    LET n == Len(buckets)
    IN  [k \in 1..(n * Len(value_vars)) |->
           [Month |-> buckets[((k - 1) % n) + 1].Month,
            variable |-> value_vars[((k - 1) \div n) + 1],
            value |-> buckets[((k - 1) % n) + 1].v[value_vars[((k - 1) \div n) + 1]]]]

RECURSIVE SumValues(_)
SumValues(rows) ==
    IF rows = <<>> THEN 0 ELSE rows[1].value + SumValues(Tail(rows))

\* melted.groupby("Month")[value].sum().reset_index()
GroupMelted(melted) ==
    LET ms == SortAsc({ melted[i].Month : i \in 1..Len(melted) })
    IN  [i \in 1..Len(ms) |->
           [Month |-> ms[i],
            value |-> SumValues(SelectSeq(melted, LAMBDA r : r.Month = ms[i]))]]

\* df[cols].sum(axis=1) of every row of a monthly sum
RowTotals(buckets, cols) ==
    [i \in 1..Len(buckets) |->
       [Month |-> buckets[i].Month, value |-> SumOver(buckets[i].v, cols)]]

\* df[cols].sum(): the sum of each column
ColTotals(rows, cols) == [c \in Range(cols) |-> SumCol(rows, c)]

\* tokens_source_df[token_source_cols].sum().reset_index()
TotalTokensBySource(df, cols) ==
    [i \in 1..Len(cols) |-> [Source |-> cols[i], value |-> SumCol(df.rows, cols[i])]]

\* the column names in the order Python sorts strings
NameOrder == <<"Airdrop", "Invite", "Note", "Promo", "Staking", "Total">>

\* the second detection, over the frame with its Month_dt and Month columns
DetectPieSourceCols(df) ==
    SelectSeq(df.columns \o <<"Month_dt", "Month">>,
              LAMBDA c : c \notin {"Date", "Month_dt", "Month", "Total"}
                         /\ c \in df.numeric)

\* melted.groupby(["Month", "Source"], observed=True).sum().reset_index(): one
\* row per month that occurs and source, the sources in sorted order
MonthlyData(rows, cols) ==
    LET ms  == SortAsc(MonthsOf(rows))
        src == SelectSeq(NameOrder, LAMBDA c : c \in Range(cols))
        n   == Len(src)
    IN  [k \in 1..(Len(ms) * n) |->
           [Month |-> MonthLabel(ms[((k - 1) \div n) + 1]),
            variable |-> src[((k - 1) % n) + 1],
            value |-> SumCol(InMonth(rows, ms[((k - 1) \div n) + 1]),
                             src[((k - 1) % n) + 1])]]

\* monthly_data["Month"].cat.categories: the months of the frame, in order
PieMonths(rows) ==
    LET ms == SortAsc(MonthsOf(rows))
    IN  [i \in 1..Len(ms) |-> MonthLabel(ms[i])]

\* monthly_data.groupby("Month", observed=True)["Tokens"].sum()
MonthTotals(monthly_data, months) ==
    [i \in 1..Len(months) |->
       [Month |-> months[i],
        value |-> SumValues(SelectSeq(monthly_data, LAMBDA r : r.Month = months[i]))]]

WalletCols == <<"Android", "iOS", "Web">>

\* make_subplots(rows=1, cols=len(months)) raises ValueError unless cols > 0
MakeSubplotsRaises(months) == Len(months) = 0

\* everything create_figures computes
Figures ==
    LET tsdf   == OnOrAfter(tokens_source_df.rows, Cutoff20250101)
        tcols  == DetectTokenSourceCols(tokens_source_df)
        mtok   == MonthlyTokens(tsdf, tokens_source_df)
        wfil   == After(wallet_df.rows, Cutoff20241231)
        mwal   == GroupByMonth(wfil, Range(WalletCols))
        ptot   == ColTotals(mwal, WalletCols)
        rdf    == OnOrAfter(referral_df.rows, Cutoff20250101)
        rbs    == GroupByMonth(rdf, Range(referral_sources))
        rmelt  == Melt(rbs, referral_sources)
        fdf    == After(fee_df.rows, Cutoff20241231)
        mfee   == GroupByMonth(fdf, {"TxnFee(POL)"})
        tts    == TotalTokensBySource(tokens_source_df, tcols)
        pcols  == DetectPieSourceCols(tokens_source_df)
        mdata  == MonthlyData(tsdf, pcols)
        months == PieMonths(tsdf)
    IN  [tsdf |-> tsdf,
         token_source_cols |-> tcols,
         monthly_tokens |-> mtok,
         total_tokens |-> SumCol(mtok, "Total"),
         wallet_df_filtered |-> wfil,
         monthly_wallets |-> mwal,
         platform_totals |-> ptot,
         platform_total |-> SumOver(ptot, WalletCols),
         wallets_melted |-> Melt(mwal, WalletCols),
         rdf |-> rdf,
         referral_by_source |-> rbs,
         referral_totals |-> ColTotals(rbs, referral_sources),
         referral_total |-> SumOver(ColTotals(rbs, referral_sources), referral_sources),
         referral_melted |-> rmelt,
         referral_totals_by_month |-> GroupMelted(rmelt),
         referral_line |-> RowTotals(rbs, referral_sources),
         fdf |-> fdf,
         monthly_fee |-> mfee,
         total_fee |-> SumCol(mfee, "TxnFee(POL)"),
         total_tokens_by_source |-> tts,
         total_by_source |-> SumValues(tts),
         pie_source_cols |-> pcols,
         monthly_data |-> mdata,
         months |-> months,
         month_totals |-> MonthTotals(mdata, months),
         pie_total |-> SumValues(mdata)]

\* the figures before create_figures has run
NoFigures ==
    [tsdf |-> <<>>, token_source_cols |-> <<>>, monthly_tokens |-> <<>>,
     total_tokens |-> 0, wallet_df_filtered |-> <<>>, monthly_wallets |-> <<>>,
     platform_totals |-> [c \in Range(WalletCols) |-> 0], platform_total |-> 0,
     wallets_melted |-> <<>>, rdf |-> <<>>, referral_by_source |-> <<>>,
     referral_totals |-> <<>>, referral_total |-> 0, referral_melted |-> <<>>,
     referral_totals_by_month |-> <<>>, referral_line |-> <<>>, fdf |-> <<>>,
     monthly_fee |-> <<>>, total_fee |-> 0, total_tokens_by_source |-> <<>>,
     total_by_source |-> 0, pie_source_cols |-> <<>>, monthly_data |-> <<>>,
     months |-> <<>>, month_totals |-> <<>>, pie_total |-> 0]

(***************************************************************************)
(* The program: the module-level statements in order.                      *)
(***************************************************************************)
Init ==
    /\ pc = "load"
    /\ \/ /\ sheet_names \in [SheetKeys -> NameForms]
          /\ sheets = DefaultSheets
       \/ /\ sheet_names = [k \in SheetKeys |-> "exact"]
          /\ \E k \in SheetKeys : \E lay \in Layouts(k) : \E n \in 0..MaxRecs :
                \E rs \in [1..n -> RowsOf(lay)] :
                   sheets = [DefaultSheets EXCEPT ![k] = Sheet(lay, rs)]
    /\ tokens_source_df = NoFrame
    /\ wallet_df = NoFrame
    /\ referral_df = NoFrame
    /\ fee_df = NoFrame
    /\ referral_sources = <<>>
    /\ figs = NoFigures

\* df = {k.strip(): v ...}; df["Referrals"], df["Wallets Created"], df["POL Data"]:
\* a sheet is found under its name with the surrounding blanks removed
InDict(k) == sheet_names[k] \in {"exact", "padded"}

\* pd.read_excel(..., sheet_name="Tokens per source"): the name as written
InWorkbook(k) == sheet_names[k] = "exact"

\* a loader that looks for the token sheet only
TokenSheetFound == InWorkbook("Tokens per source")

SheetsFound ==
    /\ InDict("Referrals")
    /\ InDict("Wallets Created")
    /\ InDict("POL Data")
    /\ InWorkbook("Tokens per source")

\* lines 10-16, every sheet found
LoadWorkbook ==
    /\ pc = "load"
    /\ SheetsFound
    /\ referral_df' = read_excel(sheets["Referrals"])
    /\ wallet_df' = read_excel(sheets["Wallets Created"])
    /\ fee_df' = read_excel(sheets["POL Data"])
    /\ tokens_source_df' = read_excel(sheets["Tokens per source"])
    /\ pc' = "clean"
    /\ UNCHANGED <<sheet_names, sheets, referral_sources, figs>>

\* lines 10-16, a sheet missing: KeyError or ValueError ends the program
LoadFails ==
    /\ pc = "load"
    /\ ~SheetsFound
    /\ pc' = "aborted"
    /\ UNCHANGED <<sheet_names, sheets, tokens_source_df, wallet_df, referral_df,
                   fee_df, referral_sources, figs>>

\* lines 17-31
CleanAndPrep ==
    /\ pc = "clean"
    /\ tokens_source_df' = StripTime(CleanDates(tokens_source_df, "%m-%d-%Y"))
    /\ wallet_df' = CleanDates(wallet_df, "%Y-%m-%d")
    /\ fee_df' = CleanDates(fee_df, "%Y-%m-%d")
    /\ referral_sources' = DetectReferralSources(CleanDates(referral_df, "%Y-%m-%d"))
    /\ referral_df' = AddReferrals(CleanDates(referral_df, "%Y-%m-%d"),
                                   referral_sources')
    /\ pc' = "figures"
    /\ UNCHANGED <<sheet_names, sheets, figs>>

\* lines 34-256 and 259: create_figures returns its nine figures
CreateFigures ==
    /\ pc = "figures"
    /\ ~MakeSubplotsRaises(Figures.months)
    /\ figs' = Figures
    /\ pc' = "layout"
    /\ UNCHANGED <<sheet_names, sheets, tokens_source_df, wallet_df, referral_df,
                   fee_df, referral_sources>>

\* lines 34-219 and 259: make_subplots raises, and the program ends with no figure
CreateFiguresRaises ==
    /\ pc = "figures"
    /\ MakeSubplotsRaises(Figures.months)
    /\ pc' = "raised"
    /\ UNCHANGED <<sheet_names, sheets, tokens_source_df, wallet_df, referral_df,
                   fee_df, referral_sources, figs>>

\* lines 262-301: the layout holds the figures
BuildLayout ==
    /\ pc = "layout"
    /\ pc' = "serving"
    /\ UNCHANGED <<sheet_names, sheets, tokens_source_df, wallet_df, referral_df,
                   fee_df, referral_sources, figs>>

Next ==
    \/ LoadWorkbook
    \/ LoadFails
    \/ CleanAndPrep
    \/ CreateFigures
    \/ CreateFiguresRaises
    \/ BuildLayout

Spec == Init /\ [][Next]_vars

\* the program has produced its figures
Produced == pc \in {"layout", "serving"}

(***************************************************************************)
(* What the properties below speak of.                                     *)
(***************************************************************************)
RECURSIVE SumIdx(_, _, _)
\* the sum of column c over the rows at the indices I
SumIdx(rows, I, c) ==
    IF I = {} THEN 0
    ELSE LET i == CHOOSE x \in I : TRUE
         IN  rows[i].v[c] + SumIdx(rows, I \ {i}, c)

RECURSIVE SumSet(_, _)
\* the sum of f over the set S
SumSet(f, S) ==
    IF S = {} THEN 0
    ELSE LET x == CHOOSE y \in S : TRUE
         IN  f[x] + SumSet(f, S \ {x})

\* the rows of a frame that fall in a month
IdxInMonth(rows, mi) == { i \in 1..Len(rows) : MonthOf(rows[i].Date) = mi }

\* the month a label names
LabelMonth(l) == l.Y * 12 + l.b - 1

\* the months of a sequence of monthly rows
MonthSeq(buckets) == [i \in 1..Len(buckets) |-> buckets[i].Month]

\* every month from the first to the last month of the rows
Span(rows) ==
    IF rows = <<>> THEN <<>>
    ELSE LET lo == CHOOSE x \in MonthsOf(rows) : \A y \in MonthsOf(rows) : x <= y
             hi == CHOOSE x \in MonthsOf(rows) : \A y \in MonthsOf(rows) : x >= y
         IN  [i \in 1..(hi - lo + 1) |-> lo + i - 1]

\* the position of a name in a list
IndexIn(cols, c) == CHOOSE i \in 1..Len(cols) : cols[i] = c

\* the date format each sheet is cleaned with
FormatOf(k) == IF k = "Tokens per source" THEN "%m-%d-%Y" ELSE "%Y-%m-%d"

\* the frame read from each sheet
FrameOf(k) ==
    CASE k = "Tokens per source" -> tokens_source_df
      [] k = "Wallets Created" -> wallet_df
      [] k = "Referrals" -> referral_df
      [] OTHER -> fee_df

\* a date cell that is a date, or text in the format expected
Parsable(cell, format) == cell.kind = "datetime" \/ cell.fmt = format

\* the rows of a sheet whose date parses
ParsableIdx(k) ==
    { i \in 1..Len(sheets[k].rows) : Parsable(sheets[k].rows[i].Date, FormatOf(k)) }

\* the rows of a sheet whose date parses and falls in the window of its domain
WindowIdx(k) ==
    { i \in ParsableIdx(k) :
        IF k \in {"Wallets Created", "POL Data"}
        THEN Key(sheets[k].rows[i].Date.ts) > Key(Cutoff20241231)
        ELSE DayKey(sheets[k].rows[i].Date.ts) >= DayKey(Cutoff20250101) }

\* the columns of a sheet that hold numbers
SheetValueCols(k) ==
    { c \in Range(sheets[k].columns) : c # "Date" /\ c \notin sheets[k].text }

Cleaned == pc \in {"figures", "layout", "serving", "raised"}

(***************************************************************************)
(* C1: in each of the four domains, and in the by-source breakdown of the  *)
(* tokens, the value a month's row stores for a category is the sum of     *)
(* that category over the filtered records of that calendar month.         *)
(***************************************************************************)
BucketsAreSums(buckets, rows, cols) ==
    \A i \in 1..Len(buckets) : \A c \in cols :
        buckets[i].v[c] = SumIdx(rows, IdxInMonth(rows, buckets[i].Month), c)

C1_BucketSums ==
    Produced =>
        /\ BucketsAreSums(figs.monthly_tokens, figs.tsdf, Range(figs.token_source_cols))
        /\ BucketsAreSums(figs.monthly_wallets, figs.wallet_df_filtered, Range(WalletCols))
        /\ BucketsAreSums(figs.referral_by_source, figs.rdf, Range(referral_sources))
        /\ BucketsAreSums(figs.monthly_fee, figs.fdf, {"TxnFee(POL)"})
        /\ \A k \in 1..Len(figs.monthly_data) :
              figs.monthly_data[k].value =
                 SumIdx(figs.tsdf,
                        IdxInMonth(figs.tsdf, LabelMonth(figs.monthly_data[k].Month)),
                        figs.monthly_data[k].variable)

\* two wallet records of one month and one of another have been summed
C1_Witness ==
    /\ Produced
    /\ Len(figs.monthly_wallets) = 2
    /\ Len(figs.wallet_df_filtered) = 2

(***************************************************************************)
(* C2: every monthly aggregation holds one row for every calendar month    *)
(* from the first to the last month of its filtered records, in order, a   *)
(* month without records as a row of zeros.                                *)
(***************************************************************************)
C2_EveryMonthOfSpan ==
    Produced =>
        /\ MonthSeq(figs.monthly_tokens) = Span(figs.tsdf)
        /\ MonthSeq(figs.monthly_wallets) = Span(figs.wallet_df_filtered)
        /\ MonthSeq(figs.referral_by_source) = Span(figs.rdf)
        /\ MonthSeq(figs.monthly_fee) = Span(figs.fdf)

(***************************************************************************)
(* C3: in every domain the grand total equals the sum of the category      *)
(* totals and the sum of the month totals; for the tokens the total of the *)
(* monthly chart, the sum of the source columns over the window and the    *)
(* total of the by-source breakdown are one number, with or without a      *)
(* stored Total column.                                                    *)
(***************************************************************************)
C3_GrandTotals ==
    Produced =>
        /\ figs.total_tokens =
              SumSet([c \in Range(figs.token_source_cols) |->
                        SumIdx(figs.tsdf, 1..Len(figs.tsdf), c)],
                     Range(figs.token_source_cols))
        /\ figs.total_tokens = figs.pie_total
        /\ figs.pie_total = SumValues(figs.month_totals)
        /\ figs.platform_total = SumSet(figs.platform_totals, Range(WalletCols))
        /\ figs.platform_total = SumValues(RowTotals(figs.monthly_wallets, WalletCols))
        /\ figs.referral_total = SumSet(figs.referral_totals, Range(referral_sources))
        /\ figs.referral_total = SumValues(figs.referral_totals_by_month)
        /\ figs.referral_total = SumValues(figs.referral_line)
        /\ figs.total_fee = SumValues(RowTotals(figs.monthly_fee, <<"TxnFee(POL)">>))

(***************************************************************************)
(* C4: each source's total in the totals-by-source data, and their grand   *)
(* total, is the sum of that source over the records dated on or after     *)
(* 2025-01-01.                                                             *)
(***************************************************************************)
C4_WindowedSourceTotals ==
    Produced =>
        /\ \A i \in 1..Len(figs.total_tokens_by_source) :
              figs.total_tokens_by_source[i].value =
                 SumIdx(sheets["Tokens per source"].rows,
                        WindowIdx("Tokens per source"),
                        figs.total_tokens_by_source[i].Source)
        /\ figs.total_by_source =
              SumSet([c \in Range(figs.token_source_cols) |->
                        SumIdx(sheets["Tokens per source"].rows,
                               WindowIdx("Tokens per source"), c)],
                     Range(figs.token_source_cols))

(***************************************************************************)
(* C5: the long form of the wallet and of the referral sums holds one row  *)
(* for every pair of a month and a category.                               *)
(***************************************************************************)
\* one row per pair of a monthly row and a category, with that pair's value
OneRowPerPair(melted, buckets, cols) ==
    /\ Len(melted) = Len(buckets) * Len(cols)
    /\ \A i \in 1..Len(buckets) : \A j \in 1..Len(cols) :
          Cardinality({ k \in 1..Len(melted) :
                          /\ melted[k].Month = buckets[i].Month
                          /\ melted[k].variable = cols[j]
                          /\ melted[k].value = buckets[i].v[cols[j]] }) = 1

\* months outside, categories inside
MonthMajor(melted, cols) ==
    \A j \in 1..Len(melted) : \A k \in 1..Len(melted) :
        j < k =>
          \/ melted[j].Month < melted[k].Month
          \/ /\ melted[j].Month = melted[k].Month
             /\ IndexIn(cols, melted[j].variable) < IndexIn(cols, melted[k].variable)

\* categories outside, months inside
CategoryMajor(melted, cols) ==
    \A j \in 1..Len(melted) : \A k \in 1..Len(melted) :
        j < k =>
          \/ IndexIn(cols, melted[j].variable) < IndexIn(cols, melted[k].variable)
          \/ /\ melted[j].variable = melted[k].variable
             /\ melted[j].Month < melted[k].Month

\* C5 as stated: the rows run over the months in order and, within a month,
\* over the categories in their declared order
C5_MonthMajorOrder ==
    Produced =>
        /\ OneRowPerPair(figs.wallets_melted, figs.monthly_wallets, WalletCols)
        /\ MonthMajor(figs.wallets_melted, WalletCols)
        /\ OneRowPerPair(figs.referral_melted, figs.referral_by_source, referral_sources)
        /\ MonthMajor(figs.referral_melted, referral_sources)

\* C5 as amended: the rows run over the categories in their declared order
\* and, within a category, over the months in order
C5_CategoryMajorOrder ==
    Produced =>
        /\ OneRowPerPair(figs.wallets_melted, figs.monthly_wallets, WalletCols)
        /\ CategoryMajor(figs.wallets_melted, WalletCols)
        /\ OneRowPerPair(figs.referral_melted, figs.referral_by_source, referral_sources)
        /\ CategoryMajor(figs.referral_melted, referral_sources)

\* the wallet sums of two months have been reshaped
C5_Witness ==
    /\ Produced
    /\ Len(figs.monthly_wallets) = 2
    /\ Len(figs.wallets_melted) = 6

(***************************************************************************)
(* C6: in every domain a record is kept by the window filter exactly when  *)
(* its calendar date is 2025-01-01 or later, whatever its time of day.     *)
(***************************************************************************)
KeptByDay(df, filtered) ==
    \A i \in 1..Len(df.rows) :
        (df.rows[i] \in Range(filtered))
           <=> (DayKey(df.rows[i].Date) >= DayKey(Cutoff20250101))

C6_DayGranularity ==
    Produced =>
        /\ KeptByDay(wallet_df, figs.wallet_df_filtered)
        /\ KeptByDay(fee_df, figs.fdf)
        /\ KeptByDay(tokens_source_df, figs.tsdf)
        /\ KeptByDay(referral_df, figs.rdf)

(***************************************************************************)
(* C7: cleaning keeps exactly the records whose date is a date or text in  *)
(* the format of the domain, and the totals computed afterwards are sums   *)
(* over those records alone.                                               *)
(***************************************************************************)
RetainedAreParsable(k) ==
    /\ Len(FrameOf(k).rows) = Cardinality(ParsableIdx(k))
    /\ \A c \in SheetValueCols(k) :
          SumCol(FrameOf(k).rows, c) = SumIdx(sheets[k].rows, ParsableIdx(k), c)

C7_UnparsableDatesDropped ==
    /\ Cleaned => \A k \in SheetKeys : RetainedAreParsable(k)
    /\ Produced =>
          /\ \A i \in 1..Len(figs.total_tokens_by_source) :
                figs.total_tokens_by_source[i].value =
                   SumIdx(sheets["Tokens per source"].rows,
                          ParsableIdx("Tokens per source"),
                          figs.total_tokens_by_source[i].Source)
          /\ figs.pie_total =
                SumSet([c \in Range(figs.pie_source_cols) |->
                          SumIdx(sheets["Tokens per source"].rows,
                                 WindowIdx("Tokens per source"), c)],
                       Range(figs.pie_source_cols))
          /\ \A c \in Range(WalletCols) :
                figs.platform_totals[c] =
                   SumIdx(sheets["Wallets Created"].rows, WindowIdx("Wallets Created"), c)
          /\ \A c \in Range(referral_sources) :
                figs.referral_totals[c] =
                   SumIdx(sheets["Referrals"].rows, WindowIdx("Referrals"), c)
          /\ figs.total_fee =
                SumIdx(sheets["POL Data"].rows, WindowIdx("POL Data"), "TxnFee(POL)")

\* a wallet sheet of two records, one of them with a date that does not
\* parse, has been cleaned and charted
C7_Witness ==
    /\ Produced
    /\ Len(sheets["Wallets Created"].rows) = 2
    /\ Len(wallet_df.rows) = 1
    /\ Len(figs.wallet_df_filtered) = 1

(***************************************************************************)
(* C8: the run never ends in an error when a table is present and no       *)
(* record of it passes the window filter.                                  *)
(***************************************************************************)
C8_EmptyWindowIsNoError == pc # "raised"

(***************************************************************************)
(* C9: while one of the four sheets is absent the program gets no further  *)
(* than loading: no frame is cleaned and no figure is produced.            *)
(***************************************************************************)
C9_NoPartialResults ==
    (\E k \in SheetKeys : sheet_names[k] = "absent") => pc \in {"load", "aborted"}

\* the program has stopped on a workbook that lacks the fee sheet and holds
\* the other three
C9_Witness ==
    /\ pc = "aborted"
    /\ sheet_names["POL Data"] = "absent"
    /\ \A k \in SheetKeys \ {"POL Data"} : sheet_names[k] = "exact"

(***************************************************************************)
(* C10: the detected token sources, at both detections, hold neither Date  *)
(* nor Total nor a month helper column; the referral sources hold neither  *)
(* Date nor the Referrals row sum.                                         *)
(***************************************************************************)
DerivedTokenCols == {"Date", "Total", "Month", "Month_dt", "MonthLabel"}

====
